---- MODULE Spec2Model ----
(***************************************************************************)
(* Data Engineering Copilot: the crawler (data_loader.py), the index        *)
(* lifecycle (index.py), the chat history file (chat_memory.py), the        *)
(* topic-guarded agent (simple_agent.py) and the query service              *)
(* (chat_service.py).                                                       *)
(*                                                                          *)
(* Text is a sequence of one-character strings, so that lower(),            *)
(* capitalize() and the substring test `topic in text` are computed on      *)
(* characters.  A URL is a record of the parts urlparse() splits it into.   *)
(***************************************************************************)
EXTENDS Integers, Sequences, FiniteSets, TLC

VARIABLES
    chat_files,     \* chat_memory_{user_id}.json, per user identity
    agent_cache,    \* chat_service._agent_cache: the identities holding an agent
    chroma_file,    \* whether <storage_directory>/chroma.sqlite3 exists
    collection,     \* the "rag_index" collection of the persistent vector store
    data_dir,       \* the files of the data storage directory
    last,           \* the last completed call: its input and what it returned
    crawl,          \* locals of convert_webpages_to_text_documents while it runs
    params,         \* its arguments and the link graph it crawls
    index_live,     \* whether the running process holds an Index object
    threads,        \* where each script thread stands in get_query_response
    pc              \* where the crawl stands: "idle", "loop" or "done"

vars == <<chat_files, agent_cache, chroma_file, collection, data_dir, last, crawl,
         params, index_live, threads, pc>>

-----------------------------------------------------------------------------
(* Bounds of the model. *)

MaxDepth == 2
MaxPagesBound == 3
MaxTurns == 2

-----------------------------------------------------------------------------
(* Text: str.lower, str.capitalize, the `in` operator on strings. *)

\* The lower-case letter of each upper-case letter, and the reverse.
LOWER ==
    [A |-> "a", B |-> "b", C |-> "c", D |-> "d", E |-> "e", F |-> "f",
     G |-> "g", H |-> "h", I |-> "i", J |-> "j", K |-> "k", L |-> "l",
     M |-> "m", N |-> "n", O |-> "o", P |-> "p", Q |-> "q", R |-> "r",
     S |-> "s", T |-> "t", U |-> "u", V |-> "v", W |-> "w", X |-> "x",
     Y |-> "y", Z |-> "z"]

UPPER ==
    [a |-> "A", b |-> "B", c |-> "C", d |-> "D", e |-> "E", f |-> "F",
     g |-> "G", h |-> "H", i |-> "I", j |-> "J", k |-> "K", l |-> "L",
     m |-> "M", n |-> "N", o |-> "O", p |-> "P", q |-> "Q", r |-> "R",
     s |-> "S", t |-> "T", u |-> "U", v |-> "V", w |-> "W", x |-> "X",
     y |-> "Y", z |-> "Z"]

lower_char(c) == IF c \in DOMAIN LOWER THEN LOWER[c] ELSE c

upper_char(c) == IF c \in DOMAIN UPPER THEN UPPER[c] ELSE c

lower(s) == [i \in 1..Len(s) |-> lower_char(s[i])]

capitalize(s) ==
    IF s = <<>> THEN s ELSE <<upper_char(s[1])>> \o lower(Tail(s))

\* Python's `sub in s` for strings.
contains(sub, s) ==
    \E i \in 1..(Len(s) - Len(sub) + 1) :
        \A j \in 1..Len(sub) : s[i + j - 1] = sub[j]

unsupported_topics ==
    << <<"k","a","f","k","a">>,
       <<"s","n","o","w","f","l","a","k","e">>,
       <<"m","o","n","g","o","d","b">>,
       <<"r","e","d","i","s">>,
       <<"e","l","a","s","t","i","c","s","e","a","r","c","h">>,
       <<"p","o","s","t","g","r","e","s">>,
       <<"m","y","s","q","l">> >>

RefusalPrefix ==
    <<"I"," ","d","o","n","'","t"," ","h","a","v","e"," ">>

RefusalSuffix ==
    <<" ","d","o","c","u","m","e","n","t","a","t","i","o","n","."," ","I"," ","c","a",
      "n"," ","o","n","l","y"," ","h","e","l","p"," ","w","i","t","h"," ","A","p","a",
      "c","h","e"," ","S","p","a","r","k",","," ","d","b","t",","," ","a","n","d"," ",
      "A","p","a","c","h","e"," ","A","i","r","f","l","o","w"," ","b","a","s","e","d",
      " ","o","n"," ","t","h","e"," ","d","o","c","u","m","e","n","t","s"," ","I"," ",
      "h","a","v","e"," ","i","n","d","e","x","e","d",".">>

FilterRefusal ==
    <<"I"," ","c","a","n"," ","o","n","l","y"," ","p","r","o","v","i","d","e"," ","i",
      "n","f","o","r","m","a","t","i","o","n"," ","f","r","o","m"," ","t","h","e"," ",
      "S","p","a","r","k",","," ","d","b","t",","," ","a","n","d"," ","A","i","r","f",
      "l","o","w"," ","d","o","c","u","m","e","n","t","a","t","i","o","n"," ","I"," ",
      "h","a","v","e"," ","i","n","d","e","x","e","d","."," ","I"," ","c","a","n","n",
      "o","t"," ","a","n","s","w","e","r"," ","a","b","o","u","t"," ","o","t","h","e",
      "r"," ","t","e","c","h","n","o","l","o","g","i","e","s",".">>

Apology ==
    <<"I"," ","e","n","c","o","u","n","t","e","r","e","d"," ","a","n"," ","e","r","r",
      "o","r"," ","s","e","a","r","c","h","i","n","g"," ","t","h","e"," ","d","o","c",
      "u","m","e","n","t","a","t","i","o","n","."," ","P","l","e","a","s","e"," ","r",
      "e","p","h","r","a","s","e"," ","y","o","u","r"," ","q","u","e","s","t","i","o",
      "n"," ","a","b","o","u","t"," ","S","p","a","r","k",","," ","d","b","t",","," ",
      "o","r"," ","A","i","r","f","l","o","w",".">>

ErrorPrefix ==
    <<"E","r","r","o","r",":"," ">>

FailedToCreateIndex ==
    <<"F","a","i","l","e","d"," ","t","o"," ","c","r","e","a","t","e"," ","i","n","d",
      "e","x">>

-----------------------------------------------------------------------------
(* Sample texts: questions, answers of the model, messages of exceptions. *)

Q_Spark == <<"W","h","a","t"," ","i","s"," ","S","p","a","r","k","?">>

Q_Kafka == <<"T","e","l","l"," ","m","e"," ","a","b","o","u","t"," ","K","a","f","k","a"," ","s","t","r","e","a","m","s">>

Q_Two == <<"M","y","S","Q","L"," ","o","r"," ","K","A","F","K","A","?">>

A_Clean == <<"S","p","a","r","k"," ","r","u","n","s"," ","S","Q","L">>

A_Kafka == <<"U","s","e"," ","K","a","f","k","a"," ","i","n","s","t","e","a","d">>

A_Postgres == <<"s","e","e"," ","P","o","s","t","g","r","e","S","Q","L"," ","d","o","c","s">>

Msg_Errno == <<"[","E","r","r","n","o"," ","1","3","]"," ","P","e","r","m","i","s","s","i","o","n"," ","d","e","n","i","e","d">>

Msg_Setup == <<"m","o","d","e","l"," ","s","e","t","u","p"," ","f","a","i","l","e","d">>


Msg_Agent == <<"a","g","e","n","t"," ","e","r","r","o","r">>

-----------------------------------------------------------------------------
(* URLs.  urlparse(url) gives the network location (host and port) and the *)
(* path; two URL strings are equal when all parts are.                      *)

Url(h, p, path) == [host |-> h, port |-> p, path |-> path]

SiteA == Url("site", "", "/a")
SiteB == Url("site", "", "/b")
SiteD == Url("site", "", "/d")
SiteE == Url("site", "8080", "/e")
OtherC == Url("other", "", "/c")
OtherG == Url("other", "", "/g")
SparkStart == Url("spark.apache.org", "", "/docs/latest/sql-getting-started.html")
SparkGuide == Url("spark.apache.org", "", "/docs/latest/sql-programming-guide.html")
SparkApi == Url("spark.apache.org", "", "/docs/latest/api/sql/index.html")
DbtRef == Url("docs.getdbt.com", "", "/reference/references-overview")
AirflowDags ==
    Url("airflow.apache.org", "", "/docs/apache-airflow/stable/core-concepts/dags.html")

URLS ==
    {SiteA, SiteB, SiteD, SiteE, OtherC, OtherG, SparkStart, SparkGuide, SparkApi,
     DbtRef, AirflowDags}

netloc(url) == <<url.host, url.port>>

hostname(url) == url.host

\* An href of a page: an absolute URL, or a path relative to the page's site.
Abs(url) == [rel |-> FALSE, url |-> url]

Rel(path) == [rel |-> TRUE, url |-> Url("", "", path)]

urljoin(base, href) ==
    IF href.rel THEN [base EXCEPT !.path = href.url.path] ELSE href.url

(* Link graphs: the hrefs BeautifulSoup finds in the text of each page. *)
NoLinks == [u \in URLS |-> <<>>]

\* spec.md section 8: page a links to b (same domain) and to other/c.
GraphScenario == [NoLinks EXCEPT ![SiteA] = <<Rel("/b"), Abs(OtherC)>>]

GraphChain ==
    [NoLinks EXCEPT ![SiteA] = <<Rel("/b"), Rel("/a")>>,
                    ![SiteB] = <<Abs(SiteD), Abs(SiteA)>>,
                    ![SiteD] = <<Abs(SiteE), Rel("/b"), Abs(OtherC)>>,
                    ![OtherC] = <<Rel("/g")>>]

GraphWide ==
    [NoLinks EXCEPT ![SiteA] = <<Rel("/b"), Rel("/d"), Rel("/b"), Abs(SiteE)>>,
                    ![SiteB] = <<Rel("/d")>>,
                    ![OtherC] = <<Abs(OtherG), Abs(SiteA)>>]

GraphDocs ==
    [NoLinks EXCEPT ![SparkStart] = <<Abs(SparkGuide), Abs(DbtRef), Abs(SparkApi)>>,
                    ![SparkGuide] = <<Abs(SparkStart)>>,
                    ![SparkApi] = <<Abs(SparkGuide)>>]

Graphs == {NoLinks, GraphScenario, GraphChain, GraphWide, GraphDocs}

\* simple_agent.py: self.urls
agent_urls == <<SparkStart, SparkGuide, DbtRef, AirflowDags>>

SeedLists ==
    {<<SiteA>>, <<SiteA, OtherC>>, <<SiteB, SiteA, SiteB>>, <<>>, agent_urls}

\* Defaults of load_index / load_documents / convert_webpages_to_text_documents.
DefaultCrawlDepth == 1

DefaultMaxPages == 50

-----------------------------------------------------------------------------
(* data_loader.py: DataLoader.convert_webpages_to_text_documents            *)

\* What one pass of the loop body can meet: the page is fetched, written and
\* its links read ("ok"); loader.load() raises; open() raises; file.write()
\* raises after open() created the file; BeautifulSoup() raises after the page
\* was counted; urljoin() raises on the last href, the earlier ones enqueued.
Outcomes ==
    {"ok", "fetch_error", "open_error", "write_error", "parse_error", "link_error"}

\* The file name: page_{pages_processed+1}_{netloc}_{path}.txt
filename(pages_processed, url) == <<pages_processed + 1, url>>

\* open(file_path, 'w') + write: the file of that name is replaced.
write_file(files, name, full) ==
    {f \in files : f.name # name} \cup {[name |-> name, full |-> full]}

crawl_start(urls, files) ==
    [visited |-> {},
     to_visit |-> [i \in 1..Len(urls) |-> <<urls[i], 0>>],
     pages_processed |-> 0,
     files |-> files,
     fetches |-> <<>>]

\* while to_visit and pages_processed < max_pages
loop_condition_stops_early(c, max_pages) ==
    c.to_visit # <<>> /\ c.pages_processed + 1 < max_pages

loop_condition_off_by_one(c, max_pages) ==
    c.to_visit # <<>> /\ c.pages_processed <= max_pages

loop_condition(c, max_pages) ==
    c.to_visit # <<>> /\ c.pages_processed < max_pages

\* if current_depth < crawl_depth
may_extract_one_deeper(current_depth, crawl_depth) == current_depth <= crawl_depth

may_extract(current_depth, crawl_depth) == current_depth < crawl_depth

\* if urlparse(absolute_url).netloc == urlparse(current_url).netloc
same_domain_unchecked(absolute_url, current_url) == TRUE

same_domain(absolute_url, current_url) ==
    netloc(absolute_url) = netloc(current_url)

\* for link in soup.find_all('a', href=True): ... to_visit.append(...)
extract_links(c, current_url, current_depth, hrefs) ==
    LET absolute == [i \in 1..Len(hrefs) |-> urljoin(current_url, hrefs[i])]
        Keep(u) == same_domain(u, current_url) /\ u \notin c.visited
        kept == SelectSeq(absolute, Keep)
    IN  [c EXCEPT !.to_visit = @ \o [i \in 1..Len(kept) |-> <<kept[i], current_depth + 1>>]]

\* if current_url in visited: continue
already_visited_unchecked(c, current_url) == FALSE

already_visited(c, current_url) == current_url \in c.visited

\* except Exception as e: print(...); continue
on_error_abort(marked) == [marked EXCEPT !.to_visit = <<>>]

on_error(marked) == marked

\* One pass of the loop body, meeting outcome oc.
crawl_iteration(c, crawl_depth, links, oc) ==
    LET current_url == Head(c.to_visit)[1]
        current_depth == Head(c.to_visit)[2]
        popped == [c EXCEPT !.to_visit = Tail(@)]
    IN  IF already_visited(c, current_url)
        THEN popped
        ELSE LET marked ==
                     [popped EXCEPT
                        !.visited = @ \cup {current_url},
                        !.fetches = Append(@, [url |-> current_url,
                                               depth |-> current_depth,
                                               outcome |-> oc])]
                 name == filename(c.pages_processed, current_url)
                 saved ==
                     [marked EXCEPT
                        !.files = write_file(@, name, TRUE),
                        !.pages_processed = @ + 1]
             IN  CASE oc = "fetch_error" -> on_error(marked)
                   [] oc = "open_error" -> on_error(marked)
                   [] oc = "write_error" ->
                        on_error([marked EXCEPT !.files = write_file(@, name, FALSE)])
                   [] oc = "parse_error" -> on_error(saved)
                   [] oc = "link_error" ->
                        IF may_extract(current_depth, crawl_depth)
                        THEN on_error(extract_links(saved, current_url, current_depth,
                                                    SubSeq(links[current_url], 1,
                                                           Len(links[current_url]) - 1)))
                        ELSE saved
                   [] OTHER ->
                        IF may_extract(current_depth, crawl_depth)
                        THEN extract_links(saved, current_url, current_depth,
                                           links[current_url])
                        ELSE saved

\* The whole call, the fetch of each URL meeting the outcome env[url].
RECURSIVE crawl_run(_, _, _, _, _)
crawl_run(c, crawl_depth, max_pages, links, env) ==
    IF loop_condition(c, max_pages)
    THEN crawl_run(crawl_iteration(c, crawl_depth, links, env[Head(c.to_visit)[1]]),
                   crawl_depth, max_pages, links, env)
    ELSE c

-----------------------------------------------------------------------------
(* chat_memory.py: ChatMemory.  The file of one identity is absent, holds a *)
(* JSON list of turns, or holds text json.load() cannot read ("corrupt").   *)

NoFile == [state |-> "absent", turns |-> <<>>]

ListFile(history) == [state |-> "list", turns |-> history]

CorruptFile == [state |-> "corrupt", turns |-> <<>>]

\* What open(..., 'w') + json.dump can meet: both succeed; open() raises and
\* the file is untouched; json.dump raises after open() truncated the file.
SaveOutcomes == {"ok", "open_error", "write_error"}

\* clear_history can also meet os.remove() raising.
ClearOutcomes == SaveOutcomes \cup {"remove_error"}

\* load_history: [] when the file is absent or json.load() fails.
load_history(file) == IF file.state = "list" THEN file.turns ELSE <<>>

save_history(file, history, io) ==
    CASE io = "open_error" -> [file |-> file, raised |-> TRUE]
      [] io = "write_error" -> [file |-> CorruptFile, raised |-> TRUE]
      [] OTHER -> [file |-> ListFile(history), raised |-> FALSE]

put_messages(file, messages, io) ==
    save_history(file, Append(load_history(file), messages), io)

clear_history(file, io) ==
    IF file.state # "absent" /\ io = "remove_error"
    THEN [file |-> file, raised |-> TRUE]
    ELSE save_history(NoFile, <<>>, IF io = "remove_error" THEN "ok" ELSE io)

-----------------------------------------------------------------------------
(* index.py: Index.  The persistent vector store keeps its collections in   *)
(* <storage_directory>/chroma.sqlite3; a stored node stands for one chunk   *)
(* and is named by the file of the Document it was cut from.                *)

\* complete: the nodes are all the nodes of one create_index that ran to its end.
NoCollection == [exists |-> FALSE, nodes |-> {}, complete |-> FALSE]

Collection(nodes, complete) == [exists |-> TRUE, nodes |-> nodes, complete |-> complete]

\* What one construction of an agent meets outside this repository's code.
\*   embed   loading the embedding model in Index.__init__
\*   remove  os.remove of chroma.sqlite3 in Index.__init__
\*   attach  list_collections / count / from_vector_store in load_index
\*   links   the link graph of the web at the time of the crawl
\*   fetch   the outcome of the fetch of each URL
\*   read    SimpleDirectoryReader(...).load_data()
\*   build   create_index: the splitter, create_collection or the insertion
\*           raising (before any node is stored, or with the last one missing)
\*   setup   HuggingFaceEmbedding / Ollama / ReActAgent in the agent's __init__
FetchPatterns ==
    {[u \in URLS |-> "ok"],
     [u \in URLS |-> "fetch_error"],
     [u \in URLS |-> IF u = DbtRef THEN "fetch_error" ELSE "ok"],
     [u \in URLS |-> IF u = SparkStart THEN "write_error" ELSE "fetch_error"]}

BuildOutcomes == {"ok", "parse_error", "create_error", "insert_error", "insert_error_late"}

AllWorlds ==
    [embed : {"ok", "error"}, remove : {"ok", "error"}, attach : {"ok", "error"},
     links : {GraphDocs}, fetch : FetchPatterns, read : {"ok", "error"},
     build : BuildOutcomes, setup : {"ok", "error"}]

Faults(w) ==
    {f \in {"embed", "attach", "read", "build", "setup"} : w[f] # "ok"}

\* The worlds explored: any web, any outcome of the removal, at most one other fault.
Worlds == {w \in AllWorlds : Cardinality(Faults(w)) <= 1}

\* Index.__init__: the directories are created, the embedding model is loaded,
\* an existing chroma.sqlite3 is removed, and the client (re)opens the store.
\* With the file removed the client opens an empty store; when os.remove()
\* raises the warning is printed and the store is the one that was there.
index_init(st, w) ==
    IF w.embed = "error"
    THEN [st |-> [st EXCEPT !.data_dir.exists = TRUE], raised |-> TRUE]
    ELSE [st |-> [st EXCEPT
                    !.data_dir.exists = TRUE,
                    !.chroma_file = TRUE,
                    !.collection =
                        IF st.chroma_file /\ w.remove = "ok" THEN NoCollection ELSE @],
          raised |-> FALSE]

\* A local variable of a handler is computed once: {F(v) : v \in {e}} binds v
\* to the value of e, and Only takes the one element out.
Only(S) == CHOOSE x \in S : TRUE

\* SimpleDirectoryReader(self.directory).load_data() on the directory as the
\* crawl left it.
read_directory(crawled, w) ==
    IF ~crawled.exists
    THEN [data_dir |-> crawled, raised |-> TRUE, documents |-> {}]
    ELSE [data_dir |-> crawled, raised |-> FALSE,
          documents |-> IF w.read = "error" THEN {} ELSE crawled.files]

\* load_documents: crawl when URLs are given, then read the whole directory.
load_documents(data, urls, crawl_depth, max_pages, w) ==
    Only({read_directory(crawled, w) :
            crawled \in {IF urls # <<>>
                         THEN [data EXCEPT
                                 !.files = crawl_run(crawl_start(urls, data.files),
                                                     crawl_depth, max_pages,
                                                     w.links, w.fetch).files]
                         ELSE data}})

\* SemanticSplitterNodeParser: the chunks of the Documents that hold text.
get_nodes_from_documents(documents) == {d.name : d \in {f \in documents : f.full}}

LastPage(nodes) == {n \in nodes : \A m \in nodes : m[1] <= n[1]}

\* create_index: delete the collection, cut the nodes, create the collection,
\* embed and insert.  Any error is re-raised.
create_index_merging(col, documents, bo) ==
    IF bo = "ok"
    THEN [collection |-> Collection(col.nodes \cup get_nodes_from_documents(documents),
                                    TRUE),
          raised |-> FALSE]
    ELSE [collection |-> NoCollection, raised |-> TRUE]

create_index(col, documents, bo) ==
    LET nodes == get_nodes_from_documents(documents)
    IN  CASE bo = "parse_error" -> [collection |-> NoCollection, raised |-> TRUE]
          [] bo = "create_error" -> [collection |-> NoCollection, raised |-> TRUE]
          [] bo = "insert_error" ->
               [collection |-> Collection({}, FALSE), raised |-> TRUE]
          [] bo = "insert_error_late" ->
               [collection |-> Collection(nodes \ LastPage(nodes), FALSE),
                raised |-> TRUE]
          [] OTHER -> [collection |-> Collection(nodes, TRUE), raised |-> FALSE]

\* The first try block of load_index: whether it returns the existing index.
can_reuse_name_never_listed(col, w) == FALSE

can_reuse(col, w) ==
    w.attach = "ok" /\ col.exists /\ Cardinality(col.nodes) > 0

\* DataLoader.__init__: the directory is created when missing.
data_loader_init(data) == [data EXCEPT !.exists = TRUE]

\* The second half of load_index: no documents is None; else create_index,
\* whose exception is caught and is None too.
build_index_unchecked(st, loaded, w) ==
    Only({[st |-> [st EXCEPT !.data_dir = loaded.data_dir,
                             !.collection = made.collection],
           index |-> IF made.raised THEN "none" ELSE "built",
           loader_calls |-> 1, create_calls |-> 1] :
            made \in {create_index(st.collection, loaded.documents, w.build)}})

build_index(st, loaded, w) ==
    IF loaded.raised \/ loaded.documents = {}
    THEN [st |-> [st EXCEPT !.data_dir = loaded.data_dir], index |-> "none",
          loader_calls |-> 1, create_calls |-> 0]
    ELSE Only({[st |-> [st EXCEPT !.data_dir = loaded.data_dir,
                                  !.collection = made.collection],
                index |-> IF made.raised THEN "none" ELSE "built",
                loader_calls |-> 1, create_calls |-> 1] :
                 made \in {create_index(st.collection, loaded.documents, w.build)}})

\* load_index: reuse the collection, or load the documents and build.  It
\* returns the index (here: which path produced it) or None, and never raises.
load_index(st, urls, crawl_depth, max_pages, w) ==
    IF can_reuse(st.collection, w)
    THEN [st |-> st, index |-> "reused", loader_calls |-> 0, create_calls |-> 0]
    ELSE Only({build_index(st, loaded, w) :
                 loaded \in {load_documents(data_loader_init(st.data_dir), urls,
                                            crawl_depth, max_pages, w)}})

-----------------------------------------------------------------------------
(* simple_agent.py: SimpleWorkingAgent *)

\* ReActAgent(max_iterations=2)
max_iterations == 2

\* SimpleWorkingAgent.__init__ after load_index returned: no index is a
\* ValueError; then the models and the ReActAgent are set up.
agent_setup(persisted, made, loaded, w) ==
    LET trace == [persisted |-> persisted, found |-> made.st.collection,
                  index |-> loaded.index, loader_calls |-> loaded.loader_calls,
                  create_calls |-> loaded.create_calls]
    IN  IF loaded.index = "none"
        THEN [st |-> loaded.st, raised |-> TRUE, message |-> FailedToCreateIndex,
              trace |-> trace]
        ELSE IF w.setup = "error"
        THEN [st |-> loaded.st, raised |-> TRUE, message |-> Msg_Setup, trace |-> trace]
        ELSE [st |-> loaded.st, raised |-> FALSE, message |-> <<>>, trace |-> trace]

\* SimpleWorkingAgent.__init__: the Index is constructed and loaded with
\* self.urls.  ChatMemory(user_id) only formats a file name.
agent_init(st, w) ==
    Only({IF made.raised
          THEN [st |-> made.st, raised |-> TRUE, message |-> Msg_Setup,
                trace |-> [persisted |-> st.collection, found |-> made.st.collection,
                           index |-> "none", loader_calls |-> 0, create_calls |-> 0]]
          ELSE Only({agent_setup(st.collection, made, loaded, w) :
                       loaded \in {load_index(made.st, agent_urls, DefaultCrawlDepth,
                                              DefaultMaxPages, w)}}) :
            made \in {index_init(st, w)}})

\* save_to_memory: put_messages, any error printed and dropped.
save_to_memory(file, question, answer, io) ==
    put_messages(file, [question |-> question, answer |-> answer], io).file

\* for topic in unsupported_topics: if topic in question_lower: return ...
\* The position in the list of the first topic found, 0 when none is.
precheck_case_sensitive(question) ==
    LET hits == {i \in 1..Len(unsupported_topics) :
                    contains(unsupported_topics[i], question)}
    IN  IF hits = {} THEN 0 ELSE CHOOSE i \in hits : \A j \in hits : i <= j

precheck(question) ==
    LET question_lower == lower(question)
        hits == {i \in 1..Len(unsupported_topics) :
                    contains(unsupported_topics[i], question_lower)}
    IN  IF hits = {} THEN 0 ELSE CHOOSE i \in hits : \A j \in hits : i <= j

refusal(topic) == RefusalPrefix \o capitalize(topic) \o RefusalSuffix

\* any(topic in result.lower() for topic in unsupported_topics)
mentions_unsupported_case_sensitive(result) ==
    \E i \in 1..Len(unsupported_topics) : contains(unsupported_topics[i], result)

mentions_unsupported(result) ==
    \E i \in 1..Len(unsupported_topics) :
        contains(unsupported_topics[i], lower(result))

\* What self.agent.run() and the extraction of its text can meet: the text
\* of an answer after some calls of the docs_search tool, or an exception
\* from the tool, the model or the parsing of its output.
Answers == {A_Clean, A_Kafka, A_Postgres}

Reasonings ==
    {[fail |-> "none", tool_calls |-> 1, answer |-> A_Clean],
     [fail |-> "none", tool_calls |-> 1, answer |-> A_Kafka],
     [fail |-> "none", tool_calls |-> 0, answer |-> A_Postgres],
     [fail |-> "tool_error", tool_calls |-> 1, answer |-> <<>>],
     [fail |-> "model_error", tool_calls |-> 0, answer |-> <<>>],
     [fail |-> "parse_error", tool_calls |-> max_iterations, answer |-> <<>>]}

\* run_agent: the answer, the out-of-scope refusal, or the apology.
run_agent_uncaught(r) ==
    IF r.fail # "none"
    THEN [raised |-> TRUE, text |-> <<>>]
    ELSE [raised |-> FALSE,
          text |-> IF mentions_unsupported(r.answer) THEN FilterRefusal ELSE r.answer]

run_agent_error_as_answer(r) ==
    IF r.fail # "none"
    THEN [raised |-> FALSE, text |-> <<>>]
    ELSE [raised |-> FALSE,
          text |-> IF mentions_unsupported(r.answer) THEN FilterRefusal ELSE r.answer]

run_agent(r) ==
    IF r.fail # "none"
    THEN [raised |-> FALSE, text |-> Apology]
    ELSE [raised |-> FALSE,
          text |-> IF mentions_unsupported(r.answer) THEN FilterRefusal ELSE r.answer]

\* SimpleWorkingAgent.query
query(file, question, r, io) ==
    Only({IF topic # 0
          THEN [file |-> file, raised |-> FALSE,
                result |-> refusal(unsupported_topics[topic]),
                agent_runs |-> 0, tool_calls |-> 0]
          ELSE Only({IF ran.raised
                     THEN [file |-> file, raised |-> TRUE, result |-> <<>>,
                           agent_runs |-> 1, tool_calls |-> r.tool_calls]
                     ELSE [file |-> save_to_memory(file, question, ran.text, io),
                           raised |-> FALSE, result |-> ran.text,
                           agent_runs |-> 1, tool_calls |-> r.tool_calls] :
                       ran \in {run_agent(r)}}) :
            topic \in {precheck(question)}})

-----------------------------------------------------------------------------
(* chat_service.py: get_query_response *)

Users == {"user123", "test_user"}

Questions == {Q_Spark, Q_Kafka, Q_Two}

NotInitialised ==
    [persisted |-> NoCollection, found |-> NoCollection, index |-> "cached",
     loader_calls |-> 0, create_calls |-> 0]

NotCalled ==
    [raised |-> FALSE, result |-> <<>>, agent_runs |-> 0, tool_calls |-> 0]

\* get_query_response with the agent at hand: the history is cleared when
\* asked, the query is answered; any exception becomes the text "Error: ...".
answer_query(cache, st, trace, files, question, user_id, clear, r, ioc, ios) ==
    Only({IF cleared.raised
          THEN [cache |-> cache, st |-> st,
                files |-> [files EXCEPT ![user_id] = cleared.file], init |-> trace,
                query_called |-> FALSE, before |-> <<>>, query |-> NotCalled,
                raised |-> FALSE, response |-> ErrorPrefix \o Msg_Errno]
          ELSE Only({[cache |-> cache, st |-> st,
                      files |-> [files EXCEPT ![user_id] = q.file], init |-> trace,
                      query_called |-> TRUE, before |-> load_history(cleared.file),
                      query |-> [raised |-> q.raised, result |-> q.result,
                                 agent_runs |-> q.agent_runs,
                                 tool_calls |-> q.tool_calls],
                      raised |-> FALSE,
                      response |-> IF q.raised THEN ErrorPrefix \o Msg_Agent
                                   ELSE q.result] :
                       q \in {query(cleared.file, question, r, ios)}}) :
            cleared \in {IF clear
                         THEN clear_history(files[user_id], ioc)
                         ELSE [file |-> files[user_id], raised |-> FALSE]}})

\* The whole handler: the agent of the identity is constructed and cached
\* unless it is cached already; an exception of the construction becomes the
\* returned text "Error: ..." and nothing is cached.
get_query_response(cache, st, files, question, user_id, clear, w, r, ioc, ios) ==
    IF user_id \in cache
    THEN answer_query(cache, st, NotInitialised, files, question, user_id, clear,
                      r, ioc, ios)
    ELSE Only({IF init.raised
               THEN [cache |-> cache, st |-> init.st, files |-> files,
                     init |-> init.trace, query_called |-> FALSE, before |-> <<>>,
                     query |-> NotCalled, raised |-> FALSE,
                     response |-> ErrorPrefix \o init.message]
               ELSE answer_query(cache \cup {user_id}, init.st, init.trace, files,
                                 question, user_id, clear, r, ioc, ios) :
                 init \in {agent_init(st, w)}})

-----------------------------------------------------------------------------
(* The state the handlers read and write, and the states at start. *)

\* The script threads of the UI, one per browser session, all importing the
\* one chat_service module; none is inside get_query_response.
Threads == {"session1", "session2"}

NoRequests == [t \in Threads |-> [at |-> "idle", user_id |-> "", documents |-> {}]]

Store == [chroma_file |-> chroma_file, collection |-> collection, data_dir |-> data_dir]

NoParams == [urls |-> <<>>, crawl_depth |-> 0, max_pages |-> 0, links |-> NoLinks]

Deployed ==
    /\ chat_files = [u \in Users |-> NoFile]
    /\ agent_cache = {}
    /\ chroma_file = FALSE
    /\ collection = NoCollection
    /\ data_dir = [exists |-> FALSE, files |-> {}]
    /\ index_live = FALSE
    /\ threads = NoRequests
    /\ last = [op |-> "none"]
    /\ crawl = crawl_start(<<>>, {})
    /\ params = NoParams
    /\ pc = "idle"

TotalTurns(files) ==
    LET RECURSIVE Sum(_)
        Sum(S) == IF S = {} THEN 0
                  ELSE LET u == CHOOSE x \in S : TRUE
                       IN  Len(load_history(files[u])) + Sum(S \ {u})
    IN  Sum(Users)

CalmWorld ==
    [embed |-> "ok", remove |-> "ok", attach |-> "ok", links |-> GraphDocs,
     fetch |-> [u \in URLS |-> "ok"], read |-> "ok", build |-> "ok", setup |-> "ok"]

\* The worlds a query of the service is explored in.
ServiceWorlds ==
    {CalmWorld, [CalmWorld EXCEPT !.setup = "error"],
     [CalmWorld EXCEPT !.fetch = [u \in URLS |-> "fetch_error"]]}

\* The outcomes of the reasoning a query of the service is explored with.
ServiceReasonings == {r \in Reasonings : r.tool_calls = 1}

-----------------------------------------------------------------------------
(* The query service: the requests of the UI. *)

GetQueryResponse ==
    \E question \in Questions, user_id \in Users, clear \in BOOLEAN :
    \E w \in IF user_id \in agent_cache THEN {CalmWorld} ELSE ServiceWorlds :
    \E ioc \in IF clear THEN ClearOutcomes ELSE {"ok"} :
    \E r \in IF precheck(question) # 0 THEN {CHOOSE x \in ServiceReasonings : TRUE}
             ELSE ServiceReasonings :
    \E ios \in IF precheck(question) # 0 THEN {"ok"} ELSE {"ok", "write_error"} :
    \E out \in {get_query_response(agent_cache, Store, chat_files, question,
                                    user_id, clear, w, r, ioc, ios)} :
            /\ TotalTurns(out.files) <= MaxTurns
            /\ agent_cache' = out.cache
            /\ chat_files' = out.files
            /\ chroma_file' = out.st.chroma_file
            /\ collection' = out.st.collection
            /\ data_dir' = out.st.data_dir
            /\ last' = [op |-> "get_query_response", user_id |-> user_id,
                        question |-> question, clear_history |-> clear,
                        index |-> out.init.index,
                        query_called |-> out.query_called,
                        query_raised |-> out.query.raised, save |-> ios,
                        raised |-> out.raised, response |-> out.response]
            /\ UNCHANGED <<index_live, threads, crawl, params, pc>>

Init == Deployed

Next == GetQueryResponse

Spec == Init /\ [][Next]_vars

-----------------------------------------------------------------------------
(* One agent answering questions, as in main() and test_agent(): the agent *)
(* of one identity has been constructed in a calm world.                    *)

FreshStore ==
    [chroma_file |-> FALSE, collection |-> NoCollection,
     data_dir |-> [exists |-> FALSE, files |-> {}]]

AgentReady ==
    \E init \in {agent_init(FreshStore, CalmWorld)} :
        /\ \E u \in Users : agent_cache = {u}
        /\ chat_files = [u \in Users |-> NoFile]
        /\ chroma_file = init.st.chroma_file
        /\ collection = init.st.collection
        /\ data_dir = init.st.data_dir
        /\ index_live = FALSE
        /\ threads = NoRequests
        /\ last = [op |-> "none"]
        /\ crawl = crawl_start(<<>>, {})
        /\ params = NoParams
        /\ pc = "idle"

AgentQuery ==
    \E user_id \in agent_cache, question \in Questions, r \in Reasonings,
       io \in SaveOutcomes :
    \E q \in {query(chat_files[user_id], question, r, io)} :
        /\ Len(load_history(q.file)) <= MaxTurns
        /\ chat_files' = [chat_files EXCEPT ![user_id] = q.file]
        /\ last' = [op |-> "query", user_id |-> user_id, question |-> question,
                    before |-> load_history(chat_files[user_id]),
                    answer |-> r.answer, fail |-> r.fail, save |-> io,
                    raised |-> q.raised, result |-> q.result,
                    agent_runs |-> q.agent_runs, tool_calls |-> q.tool_calls]
        /\ UNCHANGED <<agent_cache, chroma_file, collection, data_dir, index_live, threads,
                       crawl, params, pc>>

SpecAgent == AgentReady /\ [][AgentQuery]_vars

-----------------------------------------------------------------------------
(* The index lifecycle: agents constructed as main() and test_agent() do,   *)
(* and the Index class used directly.                                       *)

ApplyStore(st) ==
    /\ chroma_file' = st.chroma_file
    /\ collection' = st.collection
    /\ data_dir' = st.data_dir

Populated(col) == col.exists /\ Cardinality(col.nodes) > 0

\* What a call left behind for the claims: what load_index found, which path
\* it took, what it called, and whether it changed the store or the directory.
Report(op, loaded, w, persisted, found, before, after, index, loader_calls, create_calls, raised) ==
    [op |-> op, loaded |-> loaded, attach |-> w.attach,
     persisted_complete |-> Populated(persisted) /\ persisted.complete,
     found_populated |-> Populated(found), found_complete |-> found.complete,
     changed |-> [collection |-> after.collection # found,
                  data_dir |-> after.data_dir.files # before.data_dir.files],
     no_documents |-> (after.data_dir.files = {} \/ w.read = "error"),
     build |-> w.build,
     index |-> index, loader_calls |-> loader_calls, create_calls |-> create_calls,
     raised |-> raised]

AgentInit ==
    \E w \in Worlds :
    \E a \in {agent_init(Store, w)} :
        /\ ApplyStore(a.st)
        /\ last' = Report("agent_init", w.embed = "ok", w, a.trace.persisted,
                          a.trace.found, Store, a.st, a.trace.index,
                          a.trace.loader_calls, a.trace.create_calls, a.raised)
        /\ UNCHANGED <<chat_files, agent_cache, index_live, threads, crawl, params, pc>>

IndexNew ==
    \E w \in {x \in Worlds : Faults(x) \subseteq {"embed"}
                              /\ \A u \in URLS : x.fetch[u] = "ok"} :
    \E made \in {index_init(Store, w)} :
        /\ ApplyStore(made.st)
        /\ index_live' = (index_live \/ ~made.raised)
        /\ last' = [op |-> "index_new", raised |-> made.raised,
                    data_dir_existed |-> data_dir.exists]
        /\ UNCHANGED <<chat_files, agent_cache, threads, crawl, params, pc>>

\* load_index() with its defaults, with the agent's URLs, or with a budget
\* smaller than the number of seeds.
LoadArguments ==
    {[urls |-> <<>>, crawl_depth |-> DefaultCrawlDepth, max_pages |-> DefaultMaxPages],
     [urls |-> agent_urls, crawl_depth |-> DefaultCrawlDepth,
      max_pages |-> DefaultMaxPages],
     [urls |-> agent_urls, crawl_depth |-> 0, max_pages |-> MaxPagesBound]}

IndexLoad ==
    /\ index_live
    /\ \E args \in LoadArguments,
          w \in {x \in Worlds : Faults(x) \subseteq {"attach", "read", "build"}
                                /\ x.remove = "ok"} :
       \E l \in {load_index(Store, args.urls, args.crawl_depth, args.max_pages, w)} :
          /\ ApplyStore(l.st)
          /\ last' = [urls |-> args.urls] @@
                      Report("load_index", TRUE, w, collection, collection, Store,
                             l.st, l.index, l.loader_calls, l.create_calls, FALSE)
    /\ UNCHANGED <<chat_files, agent_cache, index_live, threads, crawl, params, pc>>

IndexCreate ==
    /\ index_live
    /\ \E documents \in {data_dir.files} \cup {{f} : f \in data_dir.files},
          bo \in BuildOutcomes :
       \E made \in {create_index(collection, documents, bo)} :
          /\ collection' = made.collection
          /\ last' = [op |-> "create_index", raised |-> made.raised, build |-> bo,
                      documents |-> documents, before |-> collection]
    /\ UNCHANGED <<chat_files, agent_cache, chroma_file, data_dir, index_live, threads, crawl,
                   params, pc>>

ProcessExit ==
    /\ index_live
    /\ index_live' = FALSE
    /\ last' = [op |-> "exit"]
    /\ UNCHANGED <<chat_files, agent_cache, chroma_file, collection, data_dir, threads,
                   crawl, params, pc>>

IndexNext == AgentInit \/ IndexNew \/ IndexLoad \/ IndexCreate \/ ProcessExit

SpecIndex == Deployed /\ [][IndexNext]_vars

-----------------------------------------------------------------------------
(* The query service with its requests interleaved: each script thread runs *)
(* get_query_response, one statement of the handler (or of the constructor  *)
(* and the build it calls) at a time.  The store is the one on disk, shared  *)
(* by the clients of all agents.                                            *)

At(t, where) == threads[t].at = where

Goto(t, where) == threads' = [threads EXCEPT ![t].at = where]

\* An exception reached the except of get_query_response: "Error: ..." is returned.
ReturnError(t, message) ==
    /\ threads' = [threads EXCEPT ![t] = NoRequests[t]]
    /\ last' = [op |-> "return", thread |-> t, user_id |-> threads[t].user_id,
                response |-> ErrorPrefix \o message]

\* streamlit.py: get_query_response(query, user_id, clear_history)
Request(t) ==
    /\ At(t, "idle")
    /\ \E user_id \in Users :
          threads' = [threads EXCEPT ![t] = [at |-> "check", user_id |-> user_id,
                                             documents |-> {}]]
    /\ UNCHANGED <<chat_files, agent_cache, chroma_file, collection, data_dir, last,
                   crawl, params, index_live, pc>>

\* if user_id not in _agent_cache
CheckCache(t) ==
    /\ At(t, "check")
    /\ Goto(t, IF threads[t].user_id \in agent_cache THEN "query" ELSE "index_init")
    /\ UNCHANGED <<chat_files, agent_cache, chroma_file, collection, data_dir, last,
                   crawl, params, index_live, pc>>

\* SimpleWorkingAgent(...): Index(directory, storage_directory)
ConstructIndex(t) ==
    /\ At(t, "index_init")
    /\ \E made \in {index_init(Store, CalmWorld)} : ApplyStore(made.st)
    /\ Goto(t, "load_index")
    /\ last' = [op |-> "construct", thread |-> t, user_id |-> threads[t].user_id]
    /\ UNCHANGED <<chat_files, agent_cache, crawl, params, index_live, pc>>

\* load_index up to the call of create_index: reuse, or crawl and read.
LoadIndex(t) ==
    /\ At(t, "load_index")
    /\ IF can_reuse(collection, CalmWorld)
       THEN /\ Goto(t, "setup")
            /\ UNCHANGED <<data_dir, last>>
       ELSE \E w \in ServiceWorlds :
            \E loaded \in {load_documents(data_loader_init(data_dir), agent_urls,
                                           DefaultCrawlDepth, DefaultMaxPages, w)} :
               /\ data_dir' = loaded.data_dir
               /\ IF loaded.raised \/ loaded.documents = {}
                  THEN ReturnError(t, FailedToCreateIndex)
                  ELSE /\ threads' = [threads EXCEPT ![t].at = "delete_collection",
                                                     ![t].documents = loaded.documents]
                       /\ UNCHANGED last
    /\ UNCHANGED <<chat_files, agent_cache, chroma_file, collection, crawl, params,
                   index_live, pc>>

\* create_index: delete_collection, its error passed over.
DeleteCollection(t) ==
    /\ At(t, "delete_collection")
    /\ collection' = NoCollection
    /\ Goto(t, "create_collection")
    /\ UNCHANGED <<chat_files, agent_cache, chroma_file, data_dir, last, crawl,
                   params, index_live, pc>>

\* create_index: create_collection raises when the name is taken.
CreateCollection(t) ==
    /\ At(t, "create_collection")
    /\ IF collection.exists
       THEN ReturnError(t, FailedToCreateIndex) /\ UNCHANGED collection
       ELSE /\ collection' = Collection({}, FALSE)
            /\ Goto(t, "insert")
            /\ UNCHANGED last
    /\ UNCHANGED <<chat_files, agent_cache, chroma_file, data_dir, crawl, params,
                   index_live, pc>>

\* create_index: VectorStoreIndex(nodes, ...) embeds and inserts; it raises
\* when the collection it was given is gone.
InsertNodes(t) ==
    /\ At(t, "insert")
    /\ IF ~collection.exists
       THEN ReturnError(t, FailedToCreateIndex) /\ UNCHANGED collection
       ELSE /\ collection' = Collection(collection.nodes
                                          \cup get_nodes_from_documents(threads[t].documents),
                                        TRUE)
            /\ Goto(t, "setup")
            /\ UNCHANGED last
    /\ UNCHANGED <<chat_files, agent_cache, chroma_file, data_dir, crawl, params,
                   index_live, pc>>

\* The rest of __init__, then _agent_cache[user_id] = the new agent.
CacheAgent(t) ==
    /\ At(t, "setup")
    /\ agent_cache' = agent_cache \cup {threads[t].user_id}
    /\ Goto(t, "query")
    /\ last' = [op |-> "cached", thread |-> t, user_id |-> threads[t].user_id,
                replaced |-> threads[t].user_id \in agent_cache]
    /\ UNCHANGED <<chat_files, chroma_file, collection, data_dir, crawl, params,
                   index_live, pc>>

\* The rest of the handler: clear_history when asked, agent.query(query), whose
\* reasoning calls the docs_search tool on the collection as it is now.
AnswerQuery(t) ==
    /\ At(t, "query")
    /\ \E question \in {Q_Spark, Q_Kafka}, clear \in BOOLEAN,
          r \in {x \in ServiceReasonings : x.answer # A_Kafka} :
       \E out \in {answer_query(agent_cache, Store, NotInitialised, chat_files,
                                question, threads[t].user_id, clear, r, "ok", "ok")} :
          /\ TotalTurns(out.files) <= MaxTurns
          /\ chat_files' = out.files
          /\ last' = [op |-> "answer", thread |-> t, user_id |-> threads[t].user_id,
                      searches |-> out.query.tool_calls,
                      searched |-> collection,
                      response |-> out.response]
    /\ threads' = [threads EXCEPT ![t] = NoRequests[t]]
    /\ UNCHANGED <<agent_cache, chroma_file, collection, data_dir, crawl, params,
                   index_live, pc>>

ThreadStep(t) ==
    \/ Request(t)
    \/ CheckCache(t)
    \/ ConstructIndex(t)
    \/ LoadIndex(t)
    \/ DeleteCollection(t)
    \/ CreateCollection(t)
    \/ InsertNodes(t)
    \/ CacheAgent(t)
    \/ AnswerQuery(t)

ThreadsNext == \E t \in Threads : ThreadStep(t)

SpecThreads == Deployed /\ [][ThreadsNext]_vars

-----------------------------------------------------------------------------
(* The history file of one identity with two writers: the ChatMemory objects *)
(* of two agents of that identity (or two script threads sharing one), each  *)
(* statement of put_messages a step.                                         *)

MemoryUser == "user123"

MemoryTurns ==
    {[question |-> Q_Spark, answer |-> A_Clean],
     [question |-> Q_Two, answer |-> Apology]}

NoWriters == [t \in Threads |-> [at |-> "idle", history |-> <<>>, messages |-> <<>>]]

MemoryInit ==
    /\ \E f \in {NoFile, CorruptFile} \cup {ListFile(<<m>>) : m \in MemoryTurns} :
          chat_files = [u \in Users |-> IF u = MemoryUser THEN f ELSE NoFile]
    /\ threads = NoWriters
    /\ last = [op |-> "none", calls |-> 0]
    /\ agent_cache = {MemoryUser}
    /\ chroma_file = FALSE
    /\ collection = NoCollection
    /\ data_dir = [exists |-> FALSE, files |-> {}]
    /\ index_live = FALSE
    /\ crawl = crawl_start(<<>>, {})
    /\ params = NoParams
    /\ pc = "idle"

\* put_messages: history = self.load_history()
PutMessagesLoad(t) ==
    /\ threads[t].at = "idle"
    /\ last.calls < MaxTurns
    /\ \E messages \in MemoryTurns :
          threads' = [threads EXCEPT ![t] =
                        [at |-> "loaded",
                         history |-> load_history(chat_files[MemoryUser]),
                         messages |-> messages]]
    /\ last' = [op |-> "load_history", calls |-> last.calls + 1]
    /\ UNCHANGED <<chat_files, agent_cache, chroma_file, collection, data_dir,
                   index_live, crawl, params, pc>>

\* put_messages: history.append(messages); self.save_history(history)
PutMessagesSave(t) ==
    /\ threads[t].at = "loaded"
    /\ \E io \in SaveOutcomes :
       \E saved \in {save_history(chat_files[MemoryUser],
                                  Append(threads[t].history, threads[t].messages),
                                  io)} :
          /\ chat_files' = [chat_files EXCEPT ![MemoryUser] = saved.file]
          /\ last' = [op |-> "put_messages", calls |-> last.calls, thread |-> t,
                      messages |-> threads[t].messages, raised |-> saved.raised]
    /\ threads' = [threads EXCEPT ![t] = NoWriters[t]]
    /\ UNCHANGED <<agent_cache, chroma_file, collection, data_dir, index_live,
                   crawl, params, pc>>

\* clear_history
ClearHistory(t) ==
    /\ threads[t].at = "idle"
    /\ last.op # "clear_history"
    /\ \E io \in ClearOutcomes :
       \E cleared \in {clear_history(chat_files[MemoryUser], io)} :
          /\ chat_files' = [chat_files EXCEPT ![MemoryUser] = cleared.file]
          /\ last' = [op |-> "clear_history", calls |-> last.calls, thread |-> t,
                      raised |-> cleared.raised]
    /\ UNCHANGED <<threads, agent_cache, chroma_file, collection, data_dir,
                   index_live, crawl, params, pc>>

MemoryNext ==
    \E t \in Threads : PutMessagesLoad(t) \/ PutMessagesSave(t) \/ ClearHistory(t)

SpecMemory == MemoryInit /\ [][MemoryNext]_vars

-----------------------------------------------------------------------------
(* The crawl, one pass of its loop at a time. *)

CrawlInit ==
    /\ \E urls \in SeedLists, d \in 0..MaxDepth, m \in 1..MaxPagesBound, g \in Graphs :
          /\ params = [urls |-> urls, crawl_depth |-> d, max_pages |-> m, links |-> g]
          /\ crawl = crawl_start(urls, {})
    /\ pc = "loop"
    /\ data_dir = [exists |-> TRUE, files |-> {}]
    /\ chat_files = [u \in Users |-> NoFile]
    /\ agent_cache = {}
    /\ chroma_file = FALSE
    /\ collection = NoCollection
    /\ index_live = FALSE
    /\ threads = NoRequests
    /\ last = [op |-> "none"]

CrawlStep ==
    /\ pc = "loop"
    /\ loop_condition(crawl, params.max_pages)
    /\ \E oc \in Outcomes :
          crawl' = crawl_iteration(crawl, params.crawl_depth, params.links, oc)
    /\ data_dir' = [data_dir EXCEPT !.files = crawl'.files]
    /\ UNCHANGED <<pc, params, chat_files, agent_cache, chroma_file, collection,
                   index_live, threads, last>>

CrawlReturn ==
    /\ pc = "loop"
    /\ ~loop_condition(crawl, params.max_pages)
    /\ pc' = "done"
    /\ UNCHANGED <<crawl, params, data_dir, chat_files, agent_cache, chroma_file,
                   collection, index_live, threads, last>>

CrawlNext == CrawlStep \/ CrawlReturn

SpecCrawl == CrawlInit /\ [][CrawlNext]_vars

\* The loop is sequential code: while a pass or the return is possible, one
\* is taken (every fetch returns or raises).
SpecCrawlFair == CrawlInit /\ [][CrawlNext]_vars /\ WF_vars(CrawlNext)

-----------------------------------------------------------------------------
(* Claims about the crawl (SpecCrawl). *)

Documents(files) == {f \in files : f.full}

DocumentUrls(files) == {f.name[2] : f \in Documents(files)}

SeedHosts == {hostname(params.urls[i]) : i \in 1..Len(params.urls)}

\* C6: one run with max_pages = N persists at most N page Documents, whatever
\* the seeds, the link graph, the failures met and the crawl depth.
C6_AtMostMaxPagesDocuments ==
    Cardinality(Documents(crawl.files)) <= params.max_pages

\* The budget is what stopped the crawl: an unvisited page is still queued.
C6_Witness ==
    /\ pc = "done"
    /\ Cardinality(Documents(crawl.files)) = params.max_pages
    /\ \E i \in 1..Len(crawl.to_visit) : crawl.to_visit[i][1] \notin crawl.visited

\* C7: no page deeper than crawl_depth is dequeued, fetched or persisted; with
\* crawl_depth = 0 only the seeds are fetched and nothing is ever enqueued.
C7_DepthNeverExceeded ==
    /\ \A i \in 1..Len(crawl.to_visit) : crawl.to_visit[i][2] <= params.crawl_depth
    /\ \A i \in 1..Len(crawl.fetches) : crawl.fetches[i].depth <= params.crawl_depth
    /\ params.crawl_depth = 0 =>
          /\ \E k \in 0..Len(params.urls) :
                crawl.to_visit =
                    [i \in 1..(Len(params.urls) - k) |-> <<params.urls[k + i], 0>>]
          /\ \A i \in 1..Len(crawl.fetches) :
                \E j \in 1..Len(params.urls) : crawl.fetches[i].url = params.urls[j]
          /\ \A u \in DocumentUrls(crawl.files) :
                \E j \in 1..Len(params.urls) : u = params.urls[j]

\* A page at the deepest allowed level, with links, was fetched and saved.
C7_Witness ==
    /\ pc = "done"
    /\ \E i \in 1..Len(crawl.fetches) :
          /\ crawl.fetches[i].depth = params.crawl_depth
          /\ crawl.fetches[i].outcome = "ok"
          /\ \E j \in 1..Len(params.links[crawl.fetches[i].url]) :
                LET u == urljoin(crawl.fetches[i].url, params.links[crawl.fetches[i].url][j])
                IN  same_domain(u, crawl.fetches[i].url) /\ u \notin crawl.visited

IsScenario ==
    /\ params.urls = <<SiteA>>
    /\ params.crawl_depth = 1
    /\ params.max_pages >= 2
    /\ params.links = GraphScenario

C8_FetchedHosts ==
    /\ \A i \in 1..Len(crawl.fetches) : hostname(crawl.fetches[i].url) \in SeedHosts
    /\ IsScenario =>
          /\ \A i \in 1..Len(crawl.fetches) : crawl.fetches[i].url # OtherC
          /\ DocumentUrls(crawl.files) \subseteq {SiteA, SiteB}
          /\ ( /\ pc = "done"
               /\ \A i \in 1..Len(crawl.fetches) : crawl.fetches[i].outcome = "ok" )
             => DocumentUrls(crawl.files) = {SiteA, SiteB}

C8_EnqueuedOnSameHost ==
    crawl' # crawl =>
        \A i \in 1..Len(crawl'.to_visit) :
            i > Len(crawl.to_visit) - 1 =>
                hostname(crawl'.to_visit[i][1]) = hostname(Head(crawl.to_visit)[1])

\* C8: a link is enqueued only if its host is the host of the page it was
\* found on, so every fetched URL has the host of a seed; in the scenario of
\* spec.md section 8 Documents are produced for a and b only, c never fetched.
C8_SameDomainOnly == []C8_FetchedHosts /\ [][C8_EnqueuedOnSameHost]_vars

C8_Witness ==
    IsScenario /\ pc = "done" /\ DocumentUrls(crawl.files) = {SiteA, SiteB}

-----------------------------------------------------------------------------
(* Claims about one agent answering questions (SpecAgent). *)

\* sub occurs in s, letter case ignored on both sides.
FoldedContains(sub, s) ==
    \E i \in 1..(Len(s) - Len(sub) + 1) :
        \A j \in 1..Len(sub) : lower_char(s[i + j - 1]) = lower_char(sub[j])

TopicsIn(text) ==
    {i \in 1..Len(unsupported_topics) : FoldedContains(unsupported_topics[i], text)}

Turn(question, answer) == [question |-> question, answer |-> answer]

\* C1: whatever the outcome of a query (answer, pre-check refusal, post-filter
\* refusal, apology), the history of the identity is the history before the
\* call followed by the one turn {question, answer}.
C1_ExactlyOneTurnAppended ==
    (last.op = "query" /\ last.save = "ok") =>
        load_history(chat_files[last.user_id])
            = Append(last.before, Turn(last.question, last.result))

\* C2: a question that holds a denylisted topic, letter case ignored, gets the
\* canned refusal naming the first such topic of the denylist, and neither the
\* reasoning loop nor the retrieval tool runs.
C2_DenylistedQuestionRefused ==
    (last.op = "query" /\ TopicsIn(last.question) # {}) =>
        LET first == CHOOSE i \in TopicsIn(last.question) :
                         \A j \in TopicsIn(last.question) : i <= j
        IN  /\ ~last.raised
            /\ last.result = refusal(unsupported_topics[first])
            /\ FoldedContains(unsupported_topics[first], last.result)
            /\ last.agent_runs = 0
            /\ last.tool_calls = 0

\* Two topics in the question: the refusal names the first of the denylist
\* (kafka), not the first of the text (mysql).
C2_Witness ==
    /\ last.op = "query"
    /\ last.question = Q_Two
    /\ TopicsIn(last.question) = {1, 7}
    /\ last.result = refusal(unsupported_topics[1])

\* C5: when the reasoning loop's answer holds a denylisted topic, letter case
\* ignored, the out-of-scope refusal is returned instead of it; so no text
\* returned from the reasoning path holds a denylisted topic.
C5_NoDenylistedTopicInAnswer ==
    (last.op = "query" /\ last.agent_runs = 1 /\ ~last.raised) =>
        /\ TopicsIn(last.result) = {}
        /\ (last.fail = "none" /\ TopicsIn(last.answer) # {}) =>
               (last.result = FilterRefusal /\ last.result # last.answer)

C5_Witness ==
    /\ last.op = "query"
    /\ last.fail = "none"
    /\ last.answer = A_Postgres
    /\ last.result = FilterRefusal

-----------------------------------------------------------------------------
(* Claims about the query service (Spec). *)

\* C3: get_query_response(query, identity, clear_history=True) leaves the
\* history of the identity holding exactly the new turn.
C3_ClearThenQueryLeavesOneTurn ==
    ( /\ last.op = "get_query_response"
      /\ last.clear_history
      /\ last.query_called
      /\ last.save = "ok" ) =>
        load_history(chat_files[last.user_id]) = <<Turn(last.question, last.response)>>

Refusals == {refusal(unsupported_topics[i]) : i \in 1..Len(unsupported_topics)}

ErrorTexts == {ErrorPrefix \o m : m \in {FailedToCreateIndex, Msg_Setup, Msg_Errno}}

\* C4: whatever fails (the construction of the agent, the clearing of the
\* history, the tool, the model, the parsing), neither get_query_response nor
\* the query of the agent raises: the caller gets an answer, a refusal, the
\* apology or an error text.
C4_AlwaysReturnsAString ==
    last.op = "get_query_response" =>
        /\ ~last.raised
        /\ ~last.query_raised
        /\ last.response \in Answers \cup Refusals \cup ErrorTexts
                               \cup {FilterRefusal, Apology}

\* The reasoning failed inside a query and the apology came back.
C4_Witness ==
    /\ last.op = "get_query_response"
    /\ last.query_called
    /\ last.response = Apology

-----------------------------------------------------------------------------
(* Claims about the index lifecycle (SpecIndex). *)

LoadRan == last.op \in {"agent_init", "load_index"} /\ last.loaded

TookReusePath ==
    /\ last.index = "reused"
    /\ last.loader_calls = 0
    /\ last.create_calls = 0
    /\ ~last.changed.collection
    /\ ~last.changed.data_dir

C10_BuiltOncePerDeployment ==
    ( /\ last.op = "agent_init"
      /\ last.loaded
      /\ last.attach = "ok"
      /\ last.persisted_complete ) =>
        (last.index = "reused" /\ last.loader_calls = 0 /\ last.create_calls = 0)

\* C11: with no collection to reuse and no Document out of the ingestion (an
\* empty directory, every fetch failed, the reader failed), load_index returns
\* None, raises nothing, calls no create_index and leaves the collections alone.
C11_NoDocumentsNoIndex ==
    (LoadRan /\ last.index # "reused" /\ last.no_documents) =>
        /\ last.index = "none"
        /\ last.op = "load_index" => ~last.raised
        /\ last.loader_calls = 1
        /\ last.create_calls = 0
        /\ ~last.changed.collection

\* Every fetch failed on an empty directory.
C11_Witness ==
    /\ last.op = "load_index"
    /\ last.no_documents
    /\ data_dir.files = {}
    /\ last.index = "none"
    /\ last.loader_calls = 1

\* The chunks of a set of Documents: one per Document that holds text.
ChunksOf(documents) == {d.name : d \in {f \in documents : f.full}}

C12_LatestBuildOnly ==
    last.op = "create_index" =>
        /\ last.build = "ok" => ~last.raised
        /\ ~last.raised =>
              /\ collection.exists
              /\ collection.nodes = ChunksOf(last.documents)

C12_SameDocumentsSameContents ==
    ( /\ last.op = "create_index" /\ ~last.raised
      /\ last'.op = "create_index" /\ ~last'.raised
      /\ last'.documents = last.documents ) => collection' = collection

\* C12: create_index succeeds with or without a collection of that name in the
\* store; after a successful build the collection holds exactly the chunks of
\* the Documents of that build; the same Documents give the same contents.
C12_BuildReplacesCollection ==
    []C12_LatestBuildOnly /\ [][C12_SameDocumentsSameContents]_vars

\* A successful build over a collection holding chunks of other Documents.
C12_Witness ==
    /\ last.op = "create_index"
    /\ ~last.raised
    /\ last.before.exists
    /\ last.before.nodes \ ChunksOf(last.documents) # {}
    /\ collection.nodes # {}

BuildFailed ==
    /\ LoadRan
    /\ last.create_calls = 1
    /\ last.build \in {"insert_error", "insert_error_late"}

\* C13: when the embedding or the insertion fails during a build, the caller
\* that asked load_index for the index gets an error, not an absent index.
C13_BuildFailurePropagates ==
    (last.op = "load_index" /\ BuildFailed) => (last.raised /\ last.index # "none")

-----------------------------------------------------------------------------
(* More claims about the crawl (SpecCrawl, SpecCrawlFair). *)

\* C16: a crawl with max_pages = M makes at most M fetch attempts, the failed
\* ones counted.
C16_AtMostMaxPagesFetches ==
    Len(crawl.fetches) <= params.max_pages

\* C17: within one crawl no URL is fetched twice, whether its fetch failed or
\* not, however often it is among the seeds or in the queue.
C17_EachUrlFetchedOnce ==
    \A i, j \in 1..Len(crawl.fetches) :
        crawl.fetches[i].url = crawl.fetches[j].url => i = j

\* A seed listed twice, its only fetch failed, the queue emptied.
C17_Witness ==
    /\ pc = "done"
    /\ crawl.to_visit = <<>>
    /\ \E i, j \in 1..Len(params.urls) :
          /\ i # j
          /\ params.urls[i] = params.urls[j]
          /\ \E k \in 1..Len(crawl.fetches) :
                /\ crawl.fetches[k].url = params.urls[i]
                /\ crawl.fetches[k].outcome = "fetch_error"

PageFailures == {"fetch_error", "open_error", "write_error"}

\* The pass from crawl to crawl' fetched a page and failed to fetch or save it.
FailedPass ==
    /\ Len(crawl'.fetches) = Len(crawl.fetches) + 1
    /\ crawl'.fetches[Len(crawl'.fetches)].outcome \in PageFailures

C18_FailedPageSkipped ==
    FailedPass =>
        /\ Documents(crawl'.files) = Documents(crawl.files)
        /\ crawl'.pages_processed = crawl.pages_processed
        /\ crawl'.to_visit = Tail(crawl.to_visit)
        /\ pc' = "loop"

\* At the end, with budget left: every seed and every same-site link of a
\* page saved above the depth limit was attempted.
C18_OthersStillProcessed ==
    (pc = "done" /\ crawl.pages_processed < params.max_pages) =>
        /\ \A i \in 1..Len(params.urls) : params.urls[i] \in crawl.visited
        /\ \A k \in 1..Len(crawl.fetches) :
              ( /\ crawl.fetches[k].outcome = "ok"
                /\ crawl.fetches[k].depth < params.crawl_depth ) =>
                  \A n \in 1..Len(params.links[crawl.fetches[k].url]) :
                      LET u == urljoin(crawl.fetches[k].url,
                                       params.links[crawl.fetches[k].url][n])
                      IN  netloc(u) = netloc(crawl.fetches[k].url) => u \in crawl.visited

C20_StopsWhenItMust ==
    /\ pc = "done" =>
          (crawl.to_visit = <<>> \/ crawl.pages_processed >= params.max_pages)
    /\ crawl.pages_processed <= params.max_pages

C20_NoPassBeyondBudget ==
    (crawl.to_visit = <<>> \/ crawl.pages_processed >= params.max_pages) =>
        crawl' = crawl

\* C20: the crawl ends; it ends only with the queue empty or the budget
\* reached, and makes no pass once either holds.
C20_CrawlTerminates ==
    /\ <>(pc = "done")
    /\ []C20_StopsWhenItMust
    /\ [][C20_NoPassBeyondBudget]_vars

\* Stopped by the empty queue, with budget left, after following a link.
C20_Witness ==
    /\ pc = "done"
    /\ crawl.to_visit = <<>>
    /\ crawl.pages_processed < params.max_pages
    /\ \E k \in 1..Len(crawl.fetches) : crawl.fetches[k].depth > 0

-----------------------------------------------------------------------------
(* More claims about one agent answering questions (SpecAgent). *)

Rephrase == <<"r", "e", "p", "h", "r", "a", "s", "e">>

\* C19: when the reasoning raises (tool, model or parsing), query returns the
\* fixed "please rephrase" apology, and the turn {question, apology} is
\* appended to the history of the identity.
C19_ReasoningErrorGivesApology ==
    (last.op = "query" /\ last.agent_runs = 1 /\ last.fail # "none") =>
        /\ ~last.raised
        /\ last.result = Apology
        /\ FoldedContains(Rephrase, last.result)
        /\ last.save = "ok" =>
              load_history(chat_files[last.user_id])
                  = Append(last.before, Turn(last.question, Apology))

\* The parsing failed after the iterations were used up, with a turn stored before.
C19_Witness ==
    /\ last.op = "query"
    /\ last.fail = "parse_error"
    /\ last.save = "ok"
    /\ Len(last.before) > 0
    /\ Len(load_history(chat_files[last.user_id])) = Len(last.before) + 1

-----------------------------------------------------------------------------
(* Claims about interleaved requests (SpecThreads). *)

Constructing(t) ==
    threads[t].at \in {"index_init", "load_index", "delete_collection",
                       "create_collection", "insert", "setup"}

\* C14: no identity has two constructions of its agent under way, and none
\* is under way for an identity whose agent is cached already.
C14_OneConstructionPerIdentity ==
    /\ \A t1, t2 \in Threads :
          ( /\ t1 # t2
            /\ Constructing(t1)
            /\ Constructing(t2) ) => threads[t1].user_id # threads[t2].user_id
    /\ \A t \in Threads :
          Constructing(t) => threads[t].user_id \notin agent_cache

\* C15: every search of the docs_search tool runs on a collection that exists
\* and holds all the chunks of a finished build.
C15_NoSearchDuringRebuild ==
    (last.op = "answer" /\ last.searches > 0) =>
        (last.searched.exists /\ last.searched.complete)

-----------------------------------------------------------------------------
(* Claims about the history file (SpecMemory). *)

\* A put_messages call of thread t ends, its save done, no clear_history
\* having just run.
PutReturns(t) ==
    /\ threads[t].at = "loaded"
    /\ threads'[t].at = "idle"
    /\ last.op # "clear_history"
    /\ ~last'.raised

C21_PutAppends ==
    \A t \in Threads :
        PutReturns(t) =>
            load_history(chat_files'[MemoryUser])
                = Append(load_history(chat_files[MemoryUser]), last'.messages)

C21_ClearEmpties ==
    (last.op = "clear_history" /\ ~last.raised) =>
        load_history(chat_files[MemoryUser]) = <<>>

\* C21: a put_messages call leaves the stored record as it was, followed by
\* the new turn, also when the file was unreadable or two writers interleave;
\* after clear_history the record is empty.
C21_AppendOnlyHistory ==
    [][C21_PutAppends]_vars /\ []C21_ClearEmpties

-----------------------------------------------------------------------------
(* Claims about the document directory and the reused collection (SpecIndex). *)

\* An Index was constructed where no document directory was, and load_index
\* is called on it with no URLs.
LoadsMissingDirectory ==
    /\ last.op = "index_new"
    /\ ~last.raised
    /\ ~last.data_dir_existed
    /\ last'.op = "load_index"
    /\ last'.urls = <<>>

\* C22: with no URLs and a document directory that does not exist, loading
\* ends in a fatal error; it does not go on with no documents and no index.
C22_MissingDirectoryIsFatal ==
    [][LoadsMissingDirectory => last'.raised]_vars

\* C23: the collection load_index reuses holds the whole chunk set of a build
\* that completed; a failed build leaves nothing that is reused.
C23_ReusedCollectionIsComplete ==
    (LoadRan /\ last.index = "reused") => last.found_complete

====
